---- MODULE Spec2Model ----
(***************************************************************************)
(* PostgresStore: a tile store over one table (zoom, idx, tile) with        *)
(* PRIMARY KEY (zoom, idx).  The model covers the write path (putTile,     *)
(* putInfo, _storeDataAsync), the batch protocol (startWriting, flush,     *)
(* stopWriting), the point read (getTile) and the range query (query).     *)
(*                                                                         *)
(* JavaScript runs each handler's synchronous part to completion, so that  *)
(* part is one action; every round trip to the database is an in-flight    *)
(* request (an element of reqs) whose statements are separate actions.     *)
(***************************************************************************)
EXTENDS Integers, Sequences, FiniteSets, TLC

VARIABLES
    table,          \* the backing table: key -> the sequence of tiles stored under it
    batchMode,      \* this.batchMode, the nesting counter
    batch,          \* this.batch, the pending sequence
    maxBatchSize,   \* params.maxBatchSize (0: not configured)
    reqs,           \* requests in flight on the connection pool
    nreq,           \* number of writes submitted so far; the n-th write is request or entry n
    ev,             \* the callback fired by the last step
    sent,           \* history: the groups handed to client.batchAsync, in order
    nBegin,         \* history: number of startWriting calls
    nEnd,           \* history: number of stopWriting calls that passed the check
    qopts,          \* query: the options of the open range query
    cursor,         \* query: rows the server-side cursor has not handed over yet
    fetched,        \* query: rows fetched by the stream, not yet consumed
    delivered,      \* query: rows resolved by next() so far
    qstate,         \* query: "idle", "rejected", "opening", "open", "done", or after a
                    \* fault "failed" (cursor not opened), "faulted", "errored"
    pending,        \* query: a next() call has been made and has not resolved
    uri,            \* the constructor's argument, as it was given
    params,         \* self._params: the names of the parameters it holds
    boot            \* construction: "new", "connecting", "ready" or "failed"

vars == <<table, batchMode, batch, maxBatchSize, reqs, nreq, ev, sent,
          nBegin, nEnd, qopts, cursor, fetched, delivered, qstate, pending,
          uri, params, boot>>

storeVars == <<batchMode, batch, maxBatchSize, reqs, nreq, sent, nBegin, nEnd>>
queryVars == <<qopts, cursor, fetched, delivered, qstate, pending>>
bootVars == <<uri, params, boot>>

----------------------------------------------------------------------------
(* Bounds of the model *)

\* the configured maximum batch size K, when one is configured
MaxBatch == 1
\* startWriting calls in one behaviour
MaxBegin == 2
\* putTile and putInfo calls that reach _storeDataAsync in one behaviour
MaxWrites == 2
\* requests in flight at the same time
MaxInFlight == 2

----------------------------------------------------------------------------
(* Configuration and data *)

\* params.minzoom and params.maxzoom of the modelled store
minzoom == 1
maxzoom == 1

\* the map of the upsert's race needs no more than these tile coordinates
TileXY == {<<0, 0>>, <<1, 0>>}

\* zooms a caller may pass: below, inside and above the window
CallZooms == {0, 1, 2}
\* the zooms of the window
Zooms == minzoom..maxzoom

\* tiles are byte sequences (bytes 0..255); T1 and T2 differ in length and content.
\* Undefined stands for a payload that was not passed: no buffer holds byte -1
Undefined == <<-1>>
T0 == <<>>
T1 == <<7>>
T2 == <<8, 9>>
Payloads == {Undefined, T0, T1, T2}

\* metadata documents
Docs == {1}

headers == [ContentType |-> "application/x-protobuf", ContentEncoding |-> "gzip"]

Pow4(z) == IF z = 0 THEN 1 ELSE IF z = 1 THEN 4 ELSE IF z = 2 THEN 16 ELSE 64

\* core.xyToIndex: the quadtree address, x's bits on the even positions
xyToIndex(x, y, z) ==
    (x % 2) + 2 * (y % 2) + 4 * ((x \div 2) % 2) + 8 * ((y \div 2) % 2)

Key(z, i) == <<z, i>>
InfoKey == Key(-1, 0)
NoKey == Key(-2, 0)

\* the keys of the modelled table
Keys == {InfoKey} \cup {Key(1, i) : i \in 0..3}

\* JSON.stringify of a document, as bytes (new Buffer(...)): a digit's ASCII code
JSONstringify(d) == <<48 + d>>

----------------------------------------------------------------------------
(* The statements of self.queries, as the table executes them *)

RowsOf(t, k) == t[k]

\* an UPDATE whose WHERE clause matches no row
MutSqlUpdate(t, k, tile) == t
\* UPDATE $1~ SET tile=$4 WHERE zoom = $2 AND idx = $3
SqlUpdate(t, k, tile) == [t EXCEPT ![k] = [i \in 1..Len(t[k]) |-> tile]]

\* WHERE NOT EXISTS (SELECT 1 FROM $1~ WHERE zoom = $2 AND idx = $3)
SqlNotExists(t, k) == Len(t[k]) = 0

\* a table created without its primary key
MutPrimaryKeyOk(t, k) == TRUE
\* PRIMARY KEY (zoom, idx): the insert of a second row under a key is rejected
PrimaryKeyOk(t, k) == Len(t[k]) = 0

\* INSERT INTO $1~ (zoom, idx, tile)
SqlInsert(t, k, tile) == [t EXCEPT ![k] = Append(t[k], tile)]

\* DELETE FROM $1~ WHERE zoom = $2 AND idx = $3
SqlDelete(t, k) == [t EXCEPT ![k] = <<>>]

\* the whole 'set' statement pair run with nothing in between
SqlSet(t, k, tile) ==
    LET u == SqlUpdate(t, k, tile)
    IN  IF SqlNotExists(u, k) THEN SqlInsert(u, k, tile) ELSE u

----------------------------------------------------------------------------
(* Calls, callbacks and requests *)

\* the callback the last step fired, if any: op is the operation, res its
\* outcome; for a write,
\* key and tile are what was asked for (T0 for a delete), direct tells that the
\* statement went straight to the database, and clean that no other statement
\* wrote the key while the request was in flight; for getTile, tile is the
\* tile called back
Event(op, res, k, tile, direct, clean) ==
    [op |-> op, res |-> res, key |-> k, tile |-> tile, direct |-> direct, clean |-> clean]
Plain(op, res) == Event(op, res, NoKey, T0, FALSE, FALSE)
NoEvent == Plain("none", "none")

\* the requests rs after request rid wrote the keys ks
Disturb(rs, rid, ks) ==
    {IF q.rid # rid /\ q.key \in ks THEN [q EXCEPT !.clean = FALSE] ELSE q : q \in rs}

Entry(id, query, k, tile) == [id |-> id, query |-> query, key |-> k, tile |-> tile]

DirectReq(rid, query, k, tile, caller) ==
    [rid |-> rid, q |-> query, key |-> k, tile |-> tile,
     pc |-> IF query = "set" THEN "update" ELSE "delete",
     clean |-> TRUE, group |-> <<>>, caller |-> caller]

\* a group in flight is known by its last entry
BatchReq(group, caller) ==
    [rid |-> group[Len(group)].id, q |-> "batch", key |-> NoKey, tile |-> T0, pc |-> "batch",
     clean |-> TRUE, group |-> group, caller |-> caller]

GroupKeys(g) == {g[i].key : i \in 1..Len(g)}

----------------------------------------------------------------------------
(* The store: _storeDataAsync, startWriting, flush, stopWriting *)

\* if (data)
MutIsSet(data) == data # Undefined
\* if (data && data.length > 0)
IsSet(data) == data # Undefined /\ Len(data) > 0

\* a test that forgets !self._params.maxBatchSize
MutDirectMode == batchMode = 0
\* if (!self.batchMode || !self._params.maxBatchSize)
DirectMode == batchMode = 0 \/ maxBatchSize = 0

\* a threshold test that lets one more entry in
MutExceedsLate(b) == Len(b) > maxBatchSize + 1
\* the threshold test written with >=
MutExceedsMax(b) == Len(b) >= maxBatchSize
\* if (Object.keys(self.batch).length > self._params.maxBatchSize)
ExceedsMax(b) == Len(b) > maxBatchSize

\* a flush that forgets self.batch = []
MutFlushBody(b, caller) ==
    IF Len(b) > 0
    THEN /\ Cardinality(reqs) < MaxInFlight
         /\ batch' = b
         /\ reqs' = reqs \cup {BatchReq(b, caller)}
         /\ sent' = Append(sent, b)
         /\ ev' = NoEvent
    ELSE /\ batch' = b
         /\ UNCHANGED <<reqs, sent>>
         /\ ev' = Plain(caller, "ok")
\* the body of flush, run on the pending sequence b: detach it and hand it to
\* client.batchAsync as one group; nothing is sent when it is empty
FlushBody(b, caller) ==
    IF Len(b) > 0
    THEN /\ Cardinality(reqs) < MaxInFlight
         /\ batch' = <<>>
         /\ reqs' = reqs \cup {BatchReq(b, caller)}
         /\ sent' = Append(sent, b)
         /\ ev' = NoEvent
    ELSE /\ batch' = b
         /\ UNCHANGED <<reqs, sent>>
         /\ ev' = Plain(caller, "ok")

storeDataAsync(zoom, idx, data, caller) ==
    LET query == IF IsSet(data) THEN "set" ELSE "delete"
        tile  == IF IsSet(data) THEN data ELSE T0
        k     == Key(zoom, idx)
    IN  /\ nreq < MaxWrites
        /\ nreq' = nreq + 1
        /\ IF DirectMode
           THEN /\ Cardinality(reqs) < MaxInFlight
                /\ reqs' = reqs \cup {DirectReq(nreq + 1, query, k, tile, caller)}
                /\ ev' = NoEvent
                /\ UNCHANGED <<batch, sent>>
           ELSE LET b == Append(batch, Entry(nreq + 1, query, k, tile))
                IN  IF ExceedsMax(b)
                    THEN FlushBody(b, caller)
                    ELSE /\ batch' = b
                         /\ ev' = Event(caller, "ok", k, tile, FALSE, TRUE)
                         /\ UNCHANGED <<reqs, sent>>
        /\ UNCHANGED <<table, batchMode, maxBatchSize, nBegin, nEnd>>

\* a putTile without the check of the zoom window
MutPutTile(z, x, y, tile) ==
    /\ storeDataAsync(z, xyToIndex(x, y, z), tile, "putTile")
    /\ UNCHANGED <<queryVars, bootVars>>
\* putTile(z, x, y, tile): this.throwError outside the window, else the write
PutTile(z, x, y, tile) ==
    /\ IF z < minzoom \/ z > maxzoom
       THEN /\ ev' = Plain("putTile", "ConfigurationError")
            /\ UNCHANGED <<table, storeVars>>
       ELSE storeDataAsync(z, xyToIndex(x, y, z), tile, "putTile")
    /\ UNCHANGED <<queryVars, bootVars>>

PutInfo(doc) ==
    /\ storeDataAsync(-1, 0, JSONstringify(doc), "putInfo")
    /\ UNCHANGED <<queryVars, bootVars>>

StartWriting ==
    /\ nBegin < MaxBegin
    /\ batchMode' = batchMode + 1
    /\ nBegin' = nBegin + 1
    /\ ev' = Plain("startWriting", "ok")
    /\ UNCHANGED <<table, batch, maxBatchSize, reqs, nreq, sent, nEnd, queryVars, bootVars>>

Flush ==
    /\ FlushBody(batch, "flush")
    /\ UNCHANGED <<table, batchMode, maxBatchSize, nreq, nBegin, nEnd, queryVars, bootVars>>

\* a stopWriting without the check of the counter
MutStopUnchecked ==
    /\ batchMode' = batchMode - 1
    /\ nEnd' = nEnd + 1
    /\ nEnd < MaxBegin + 1
    /\ FlushBody(batch, "stopWriting")
    /\ UNCHANGED <<table, maxBatchSize, nreq, nBegin, queryVars, bootVars>>
\* a stopWriting that flushes only when the counter reaches 0
MutStopAtZero ==
    /\ IF batchMode = 0
       THEN /\ ev' = Plain("stopWriting", "BatchProtocolError")
            /\ UNCHANGED <<batchMode, batch, reqs, sent, nEnd>>
       ELSE /\ batchMode' = batchMode - 1
            /\ nEnd' = nEnd + 1
            /\ IF batchMode = 1
               THEN FlushBody(batch, "stopWriting")
               ELSE /\ ev' = Plain("stopWriting", "ok")
                    /\ UNCHANGED <<batch, reqs, sent>>
    /\ UNCHANGED <<table, maxBatchSize, nreq, nBegin, queryVars, bootVars>>
\* a stopWriting that decrements the counter and does not flush
MutStopNoFlush ==
    /\ IF batchMode = 0
       THEN /\ ev' = Plain("stopWriting", "BatchProtocolError")
            /\ UNCHANGED <<batchMode, batch, reqs, sent, nEnd>>
       ELSE /\ batchMode' = batchMode - 1
            /\ nEnd' = nEnd + 1
            /\ ev' = Plain("stopWriting", "ok")
            /\ UNCHANGED <<batch, reqs, sent>>
    /\ UNCHANGED <<table, maxBatchSize, nreq, nBegin, queryVars, bootVars>>
\* stopWriting: throwError at counter 0, else the decrement and the flush
StopWriting ==
    /\ IF batchMode = 0
       THEN /\ ev' = Plain("stopWriting", "BatchProtocolError")
            /\ UNCHANGED <<batchMode, batch, reqs, sent, nEnd>>
       ELSE /\ batchMode' = batchMode - 1
            /\ nEnd' = nEnd + 1
            /\ FlushBody(batch, "stopWriting")
    /\ UNCHANGED <<table, maxBatchSize, nreq, nBegin, queryVars, bootVars>>

----------------------------------------------------------------------------
(* The database executing the requests in flight *)

\* a direct write request calls back with success
Complete(r) == ev' = Event(r.caller, "ok", r.key, r.tile, TRUE, r.clean)

\* first statement of queries.set: the UPDATE
DoUpdate(r) ==
    /\ r.pc = "update"
    /\ table' = SqlUpdate(table, r.key, r.tile)
    /\ reqs' = Disturb((reqs \ {r}) \cup {[r EXCEPT !.pc = "check"]}, r.rid,
                       IF Len(table[r.key]) > 0 THEN {r.key} ELSE {})
    /\ ev' = NoEvent
    /\ UNCHANGED <<batchMode, batch, maxBatchSize, nreq, sent, nBegin, nEnd, queryVars, bootVars>>

\* second statement of queries.set: the INSERT's NOT EXISTS sub-select is
\* evaluated on the rows committed when the statement starts
DoCheck(r) ==
    /\ r.pc = "check"
    /\ IF SqlNotExists(table, r.key)
       THEN /\ reqs' = (reqs \ {r}) \cup {[r EXCEPT !.pc = "insert"]}
            /\ ev' = NoEvent
       ELSE /\ reqs' = reqs \ {r}
            /\ Complete(r)
    /\ UNCHANGED <<table, batchMode, batch, maxBatchSize, nreq, sent, nBegin, nEnd, queryVars, bootVars>>

\* an insert whose rejection is swallowed: the caller is told the write succeeded
MutDoInsert(r) ==
    /\ r.pc = "insert"
    /\ IF PrimaryKeyOk(table, r.key)
       THEN /\ table' = SqlInsert(table, r.key, r.tile)
            /\ reqs' = Disturb(reqs \ {r}, r.rid, {r.key})
            /\ Complete(r)
       ELSE /\ reqs' = reqs \ {r}
            /\ Complete(r)
            /\ UNCHANGED table
    /\ UNCHANGED <<batchMode, batch, maxBatchSize, nreq, sent, nBegin, nEnd, queryVars, bootVars>>
\* second statement of queries.set: the row is inserted, or the primary key
\* rejects it and client.none fails
DoInsert(r) ==
    /\ r.pc = "insert"
    /\ IF PrimaryKeyOk(table, r.key)
       THEN /\ table' = SqlInsert(table, r.key, r.tile)
            /\ reqs' = Disturb(reqs \ {r}, r.rid, {r.key})
            /\ Complete(r)
       ELSE /\ reqs' = reqs \ {r}
            /\ ev' = Event(r.caller, "StorageFault", r.key, r.tile, TRUE, r.clean)
            /\ UNCHANGED table
    /\ UNCHANGED <<batchMode, batch, maxBatchSize, nreq, sent, nBegin, nEnd, queryVars, bootVars>>

\* queries.delete
DoDelete(r) ==
    /\ r.pc = "delete"
    /\ table' = SqlDelete(table, r.key)
    /\ reqs' = Disturb(reqs \ {r}, r.rid, IF Len(table[r.key]) > 0 THEN {r.key} ELSE {})
    /\ Complete(r)
    /\ UNCHANGED <<batchMode, batch, maxBatchSize, nreq, sent, nBegin, nEnd, queryVars, bootVars>>

\* one entry of a group, applied to the table
ApplyEntry(t, e) ==
    IF e.query = "set" THEN SqlSet(t, e.key, e.tile) ELSE SqlDelete(t, e.key)

RECURSIVE ApplyGroup(_, _)
ApplyGroup(t, g) ==
    IF g = <<>> THEN t ELSE ApplyGroup(ApplyEntry(t, Head(g)), Tail(g))

\* the callback of the call that waited for group g: a putTile or putInfo
\* waits for the flush its entry, the last of the group, set off
GroupEvent(r, res) ==
    IF r.caller \in {"putTile", "putInfo"}
    THEN LET e == r.group[Len(r.group)] IN Event(r.caller, res, e.key, e.tile, FALSE, TRUE)
    ELSE Plain(r.caller, res)

\* client.batchAsync(batch) succeeds: the group's statements ran in order
DoBatch(r) ==
    /\ r.pc = "batch"
    /\ table' = ApplyGroup(table, r.group)
    /\ reqs' = Disturb(reqs \ {r}, r.rid, GroupKeys(r.group))
    /\ ev' = GroupEvent(r, "ok")
    /\ UNCHANGED <<batchMode, batch, maxBatchSize, nreq, sent, nBegin, nEnd, queryVars, bootVars>>

\* a failed group that is put back into self.batch
MutFailBatch(r) ==
    /\ r.pc = "batch"
    /\ reqs' = reqs \ {r}
    /\ batch' = r.group \o batch
    /\ ev' = GroupEvent(r, "StorageFault")
    /\ UNCHANGED <<table, batchMode, maxBatchSize, nreq, sent, nBegin, nEnd, queryVars, bootVars>>
\* client.batchAsync(batch) fails: .catch(self.attachUri) rethrows to the caller
FailBatch(r) ==
    /\ r.pc = "batch"
    /\ reqs' = reqs \ {r}
    /\ ev' = GroupEvent(r, "StorageFault")
    /\ UNCHANGED <<table, batchMode, batch, maxBatchSize, nreq, sent, nBegin, nEnd, queryVars, bootVars>>

----------------------------------------------------------------------------
(* The point read *)

Row(res, tile) == [res |-> res, tile |-> tile]

\* the check of queryTileAsync: not (options.idx < 0 || options.idx >= maxEnd)
IdxInRange(z, i) == ~(i < 0 \/ i >= Pow4(z))

\* queryTileAsync({zoom, idx}) with getTile defaulting to true: the outcome of
\* client.oneOrNone(queries.getTile) and of the row => ... step
queryTileAsync(t, z, i) ==
    IF ~IdxInRange(z, i) THEN Row("ValidationError", T0)
    ELSE IF Len(t[Key(z, i)]) = 0 THEN Row("false", T0)
    ELSE IF Len(t[Key(z, i)]) = 1 THEN Row("row", t[Key(z, i)][1])
    ELSE Row("StorageFault", T0)

Reply(res, tile, hdrs) == [res |-> res, tile |-> tile, headers |-> hdrs]
NoHeaders == [ContentType |-> "", ContentEncoding |-> ""]

\* what getTile(z, x, y) calls back with on table t
getTile(t, z, x, y) ==
    IF z < minzoom \/ z > maxzoom THEN Reply("NotFound", T0, NoHeaders)
    ELSE LET row == queryTileAsync(t, z, xyToIndex(x, y, z))
         IN  IF row.res = "false" THEN Reply("NotFound", T0, NoHeaders)
             ELSE IF row.res = "row" THEN Reply("ok", row.tile, headers)
             ELSE Reply(row.res, T0, NoHeaders)

\* a read in flight: client.oneOrNone(queries.getTile, [table, zoom, idx])
ReadReq(k, caller) ==
    [rid |-> 0, q |-> "getTile", key |-> k, tile |-> T0, pc |-> "read",
     clean |-> TRUE, group |-> <<>>, caller |-> caller]

\* the reads of caller c on key k among the requests rs; reads carry no
\* number, and a caller has one read of an address in flight at a time
ReadsOf(rs, k, c) == {q \in rs : q.pc = "read" /\ q.caller = c /\ q.key = k}

\* a getTile that forgets the upper end of the window
MutGetTile(z, x, y) ==
    /\ IF z < minzoom
       THEN /\ ev' = Event("getTile", "NotFound", Key(z, xyToIndex(x, y, z)), T0, FALSE, TRUE)
            /\ UNCHANGED reqs
       ELSE IF ~IdxInRange(z, xyToIndex(x, y, z))
       THEN /\ ev' = Event("getTile", "ValidationError", Key(z, xyToIndex(x, y, z)), T0, FALSE, TRUE)
            /\ UNCHANGED reqs
       ELSE /\ Cardinality(reqs) < MaxInFlight
            /\ ReadsOf(reqs, Key(z, xyToIndex(x, y, z)), "getTile") = {}
            /\ reqs' = reqs \cup {ReadReq(Key(z, xyToIndex(x, y, z)), "getTile")}
            /\ ev' = NoEvent
    /\ UNCHANGED <<table, batchMode, batch, maxBatchSize, nreq, sent, nBegin, nEnd, queryVars, bootVars>>
\* getTile(z, x, y): outside the window core.throwNoTile() is thrown before
\* queryTileAsync is called; inside it the read is sent, unless the idx fails
\* the range check of queryTileAsync
GetTile(z, x, y) ==
    /\ IF z < minzoom \/ z > maxzoom
       THEN /\ ev' = Event("getTile", "NotFound", Key(z, xyToIndex(x, y, z)), T0, FALSE, TRUE)
            /\ UNCHANGED reqs
       ELSE IF ~IdxInRange(z, xyToIndex(x, y, z))
       THEN /\ ev' = Event("getTile", "ValidationError", Key(z, xyToIndex(x, y, z)), T0, FALSE, TRUE)
            /\ UNCHANGED reqs
       ELSE /\ Cardinality(reqs) < MaxInFlight
            /\ ReadsOf(reqs, Key(z, xyToIndex(x, y, z)), "getTile") = {}
            /\ reqs' = reqs \cup {ReadReq(Key(z, xyToIndex(x, y, z)), "getTile")}
            /\ ev' = NoEvent
    /\ UNCHANGED <<table, batchMode, batch, maxBatchSize, nreq, sent, nBegin, nEnd, queryVars, bootVars>>

\* the read of a getTile is answered: .then(row => ...) of getTile
DoRead(r) ==
    /\ r.pc = "read" /\ r.caller = "getTile"
    /\ reqs' = reqs \ {r}
    /\ LET row == queryTileAsync(table, r.key[1], r.key[2])
       IN  ev' = Event("getTile",
                       IF row.res = "false" THEN "NotFound"
                       ELSE IF row.res = "row" THEN "ok" ELSE row.res,
                       r.key, row.tile, FALSE, r.clean)
    /\ UNCHANGED <<table, batchMode, batch, maxBatchSize, nreq, sent, nBegin, nEnd, queryVars, bootVars>>

\* the read fails in the database or on the connection: .catch(this.attachUri)
FailRead(r) ==
    /\ r.pc = "read"
    /\ reqs' = reqs \ {r}
    /\ ev' = Event(r.caller, "StorageFault", r.key, T0, FALSE, r.clean)
    /\ UNCHANGED <<table, batchMode, batch, maxBatchSize, nreq, sent, nBegin, nEnd, queryVars, bootVars>>

\* a parse that hands the bytes back undecoded
MutJSONparse(bytes) == bytes[1]
\* JSON.parse(row.tile.toString()) of the bytes JSON.stringify wrote
JSONparse(bytes) == bytes[1] - 48

\* what getInfo calls back with when the metadata record is absent: of the
\* synthesized descriptor, the fields taken from the configuration
Descriptor == <<minzoom, maxzoom>>

\* getInfo(): queryTileAsync({info: true}) reads zoom -1, idx 0 with no check
GetInfo ==
    /\ Cardinality(reqs) < MaxInFlight
    /\ ReadsOf(reqs, InfoKey, "getInfo") = {}
    /\ reqs' = reqs \cup {ReadReq(InfoKey, "getInfo")}
    /\ ev' = NoEvent
    /\ UNCHANGED <<table, batchMode, batch, maxBatchSize, nreq, sent, nBegin, nEnd, queryVars, bootVars>>

\* what getInfo() calls back with on table t: the parsed document, or the
\* descriptor when there is no metadata record
getInfo(t) ==
    LET row == queryTileAsync(t, -1, 0)
    IN  IF row.res = "row" THEN Reply("ok", <<JSONparse(row.tile)>>, NoHeaders)
        ELSE IF row.res = "false" THEN Reply("ok", Descriptor, NoHeaders)
        ELSE Reply(row.res, T0, NoHeaders)

\* the read of a getInfo is answered
DoReadInfo(r) ==
    /\ r.pc = "read" /\ r.caller = "getInfo"
    /\ reqs' = reqs \ {r}
    /\ ev' = Event("getInfo", getInfo(table).res, r.key, getInfo(table).tile, FALSE, r.clean)
    /\ UNCHANGED <<table, batchMode, batch, maxBatchSize, nreq, sent, nBegin, nEnd, queryVars, bootVars>>

----------------------------------------------------------------------------
(* The store's behaviours *)

\* an option that may be left out: <<>> when undefined, <<v>> when given
Undef == <<>>
Given(m) == m # Undef
\* JavaScript's truthiness of an optional number
Truthy(m) == Given(m) /\ m[1] # 0
\* options.x || d
OrElse(m, d) == IF Truthy(m) THEN m[1] ELSE d

Options(z, from, before, bigger, smaller, tiles) ==
    [zoom |-> z, idxFrom |-> from, idxBefore |-> before,
     biggerThan |-> bigger, smallerThan |-> smaller, getTiles |-> tiles,
     dateFrom |-> Undef, dateBefore |-> Undef, zoomType |-> "integer"]

\* a number given as idxFrom or idxBefore that is no integer: n + 1/2
Half(n) == <<n, 1>>
\* options whose zoom is left out ("undefined") or is no integer ("fraction")
WithZoomType(o, type) == [o EXCEPT !.zoomType = type]

\* a value given as dateFrom or dateBefore: <<1, ms>> is a Date of ms
\* milliseconds, <<2, 0>> a Date that holds no time (its valueOf() is NaN),
\* <<0, 0>> a value that is not a Date
DateOf(ms) == <<1, ms>>
InvalidDate == <<2, 0>>
NotADate == <<0, 0>>
WithDates(o, from, before) == [o EXCEPT !.dateFrom = from, !.dateBefore = before]

----------------------------------------------------------------------------
(* The point read with options: queryTileAsync({zoom, idx, getTile, getSize}) *)

\* the statements the constructor puts into self.queries (lines 88-95)
QueryNames == {"getTile", "getTileSize", "set", "delete"}

\* self.queries[name]: undefined for a name that was not put there
QueryText(name) == IF name \in QueryNames THEN <<name>> ELSE Undef

\* the options getTile and getSize after their defaults
ReadMode(wantTile, wantSize) == [getTile |-> wantTile, getSize |-> wantSize]

\* var query = getTile ? self.queries.getTile : self.queries.getSize
SelectQuery(mode) ==
    IF mode.getTile THEN QueryText("getTile") ELSE QueryText("getSize")

\* the response: resp.tile and resp.size, each <<>> when it is not set
Resp(res, tile, size) == [res |-> res, tile |-> tile, size |-> size]

\* the row a statement returns for the tile stored under a key
RowFor(query, tile) ==
    IF query = <<"getTile">> THEN [tile |-> <<tile>>, len |-> Undef]
    ELSE [tile |-> Undef, len |-> <<Len(tile)>>]

\* queryTileAsync(options) on table t: the checks, client.oneOrNone(query),
\* which rejects a query that is undefined, and the row => ... step
queryTileWith(t, z, i, mode) ==
    IF ~IdxInRange(z, i) THEN Resp("ValidationError", Undef, Undef)
    ELSE IF SelectQuery(mode) = Undef THEN Resp("InvalidQuery", Undef, Undef)
    ELSE IF Len(t[Key(z, i)]) = 0 THEN Resp("false", Undef, Undef)
    ELSE IF Len(t[Key(z, i)]) > 1 THEN Resp("StorageFault", Undef, Undef)
    ELSE LET row == RowFor(SelectQuery(mode), t[Key(z, i)][1])
         IN  Resp("row",
                  IF mode.getTile THEN row.tile ELSE Undef,
                  IF mode.getSize
                  THEN (IF mode.getTile THEN <<Len(row.tile[1])>> ELSE row.len)
                  ELSE Undef)

\* a point read in flight; tile holds its options
SizedReq(k, mode) ==
    [rid |-> 0, q |-> "queryTile", key |-> k, tile |-> <<mode>>, pc |-> "read",
     clean |-> TRUE, group |-> <<>>, caller |-> "queryTileAsync"]

\* queryTileAsync({zoom: z, idx: i, getTile: wantTile, getSize: wantSize})
QueryTile(z, i, wantTile, wantSize) ==
    /\ IF ~IdxInRange(z, i)
       THEN /\ ev' = Event("queryTileAsync", "ValidationError", Key(z, i), <<Undef, Undef>>, FALSE, TRUE)
            /\ UNCHANGED reqs
       ELSE /\ Cardinality(reqs) < MaxInFlight
            /\ ReadsOf(reqs, Key(z, i), "queryTileAsync") = {}
            /\ reqs' = reqs \cup {SizedReq(Key(z, i), ReadMode(wantTile, wantSize))}
            /\ ev' = NoEvent
    /\ UNCHANGED <<table, batchMode, batch, maxBatchSize, nreq, sent, nBegin, nEnd, queryVars, bootVars>>

\* the point read is answered: the promise of queryTileAsync settles; the
\* callback's tile is the pair of resp.tile and resp.size
DoQueryTile(r) ==
    /\ r.pc = "read" /\ r.caller = "queryTileAsync"
    /\ reqs' = reqs \ {r}
    /\ LET resp == queryTileWith(table, r.key[1], r.key[2], r.tile[1])
       IN  ev' = Event("queryTileAsync", resp.res, r.key, <<resp.tile, resp.size>>, FALSE, r.clean)
    /\ UNCHANGED <<table, batchMode, batch, maxBatchSize, nreq, sent, nBegin, nEnd, queryVars, bootVars>>

----------------------------------------------------------------------------
(* Construction and the text that failures carry *)

\* the query parameters of a uri that matter to what a failure shows; a text
\* is modelled by the set of the parameters whose values it contains
ParamNames == {"database", "table", "password"}

\* a constructor argument.  form: given as a string or as an object whose query
\* is an object; raw: an object that also holds the query as text (href,
\* search, path), as the result of url.parse does; names: the parameters of
\* its query; typesOk: core.checkType accepts them; dbOk, tableOk: the database
\* and table names pass the tests of lines 47 and 50
Uri(form, raw, names, typesOk, dbOk, tableOk) ==
    [form |-> form, raw |-> raw, names |-> names,
     typesOk |-> typesOk, dbOk |-> dbOk, tableOk |-> tableOk]

\* core.normalizeUri(uri).query: the parameters of the query.  A string is
\* parsed into a new object; an object is returned itself, so that
\* its query and self._params are then one object
normalizeUri(u) == u.names

\* JSON.stringify(uri) in this.throwError: a string is quoted whole; an object
\* shows its query as self._params holds it now, and its text fields
JSONstringifyUri(u, p) ==
    IF u.form = "string" THEN u.names
    ELSE p \cup (IF u.raw THEN u.names ELSE {})

\* err.moduleUri = JSON.stringify(self._params)
JSONstringifyParams(p) == p

\* delete params.password
DeletePassword(p) == p \ {"password"}

\* new PostgresStore(uri, callback), to the first round trip: the checks of
\* lines 39-52 throw while params still holds the password
Construct ==
    /\ boot = "new"
    /\ IF ~uri.typesOk
       THEN /\ params' = normalizeUri(uri)
            /\ boot' = "failed"
            /\ ev' = Plain("construct", "TypeError")
       ELSE IF ~uri.dbOk \/ ~uri.tableOk
       THEN /\ params' = normalizeUri(uri)
            /\ boot' = "failed"
            /\ ev' = Plain("construct", "ConfigurationError")
       ELSE /\ params' = DeletePassword(normalizeUri(uri))
            /\ boot' = "connecting"
            /\ ev' = NoEvent
    /\ UNCHANGED <<table, storeVars, queryVars, uri>>

\* self.client.none(sql) of line 86 succeeds: the callback receives the store
BootOk ==
    /\ boot = "connecting"
    /\ boot' = "ready"
    /\ ev' = Plain("construct", "ok")
    /\ UNCHANGED <<table, storeVars, queryVars, uri, params>>

\* the connection or the statement of line 86 fails
BootFail ==
    /\ boot = "connecting"
    /\ boot' = "failed"
    /\ ev' = Plain("construct", "StorageFault")
    /\ UNCHANGED <<table, storeVars, queryVars, uri, params>>

\* the failures among the callbacks
IsFailure(e) ==
    e.res \in {"TypeError", "ConfigurationError", "BatchProtocolError",
               "ValidationError", "StorageFault", "NotFound"}

\* the failures made by this.throwError
Thrown(e) ==
    e.res \in {"ConfigurationError", "BatchProtocolError", "ValidationError"}

\* the failures that pass .catch(this.attachUri): all of them but what putTile
\* and query throw before any promise exists
Attached(e) == IsFailure(e) /\ ~(e.op \in {"putTile", "query"} /\ Thrown(e))

\* what the message of failure e shows of the uri
Message(e) == IF Thrown(e) THEN JSONstringifyUri(uri, params) ELSE {}

\* what err.moduleUri of failure e shows of the parameters
Context(e) == IF Attached(e) THEN JSONstringifyParams(params) ELSE {}

\* the store the other behaviours start from: constructed from a string uri
ReadyUri == Uri("string", TRUE, ParamNames, TRUE, TRUE, TRUE)

EmptyTable == [k \in Keys |-> <<>>]
NoOpts == Options(0, Undef, Undef, Undef, Undef, FALSE)

Init ==
    /\ table = EmptyTable
    /\ batchMode = 0
    /\ batch = <<>>
    /\ maxBatchSize \in {0, MaxBatch}
    /\ reqs = {}
    /\ nreq = 0
    /\ ev = NoEvent
    /\ sent = <<>>
    /\ nBegin = 0
    /\ nEnd = 0
    /\ qopts = NoOpts
    /\ cursor = <<>>
    /\ fetched = <<>>
    /\ delivered = <<>>
    /\ qstate = "idle"
    /\ pending = FALSE
    /\ uri = ReadyUri
    /\ params = DeletePassword(normalizeUri(ReadyUri))
    /\ boot = "ready"

Next ==
    \/ \E z \in Zooms, xy \in TileXY, tile \in Payloads : PutTile(z, xy[1], xy[2], tile)
    \/ \E doc \in Docs : PutInfo(doc)
    \/ StartWriting
    \/ Flush
    \/ StopWriting
    \/ \E r \in reqs : DoUpdate(r)
    \/ \E r \in reqs : DoCheck(r)
    \/ \E r \in reqs : DoInsert(r)
    \/ \E r \in reqs : DoDelete(r)
    \/ \E r \in reqs : DoBatch(r)
    \/ \E r \in reqs : FailBatch(r)

Spec == Init /\ [][Next]_vars

\* the metadata documents written in the behaviours with reads
InfoDocs == {1, 2}

\* the store with its reads, called with zooms inside and outside the window
NextRead ==
    \/ \E z \in CallZooms, xy \in TileXY : GetTile(z, xy[1], xy[2])
    \/ GetInfo
    \/ \E r \in reqs : DoRead(r)
    \/ \E r \in reqs : DoReadInfo(r)
    \/ \E r \in reqs : FailRead(r)
    \/ \E z \in CallZooms, tile \in {T0, T1} : PutTile(z, 0, 0, tile)
    \/ \E doc \in InfoDocs : PutInfo(doc)
    \/ StartWriting
    \/ StopWriting
    \/ \E r \in reqs : DoUpdate(r)
    \/ \E r \in reqs : DoCheck(r)
    \/ \E r \in reqs : DoInsert(r)
    \/ \E r \in reqs : DoDelete(r)
    \/ \E r \in reqs : DoBatch(r)
    \/ \E r \in reqs : FailBatch(r)

SpecRead == Init /\ [][NextRead]_vars

----------------------------------------------------------------------------
(* The range query *)

\* var start = options.idxFrom || 0;  var end = options.idxBefore || maxEnd
StartOf(o) == OrElse(o.idxFrom, 0)
EndOf(o) == OrElse(o.idxBefore, Pow4(o.zoom))

\* core.isInteger(v) for a given idxFrom or idxBefore
isInteger(m) == Len(m) = 1

\* typeof options.idxX !== 'undefined' && !core.isInteger(options.idxX)
IdxTypeBad(o) ==
    \/ Given(o.idxFrom) /\ ~isInteger(o.idxFrom)
    \/ Given(o.idxBefore) /\ ~isInteger(o.idxBefore)

\* Object.prototype.toString.call(v) !== '[object Date]' for a given v
DateTypeBad(m) == Given(m) /\ m[1] = 0

\* options.dateFrom >= options.dateBefore: false when an operand is undefined
\* or NaN
DateInverted(o) ==
    /\ Given(o.dateFrom) /\ Given(o.dateBefore)
    /\ o.dateFrom[1] = 1 /\ o.dateBefore[1] = 1
    /\ o.dateFrom[2] >= o.dateBefore[2]

\* options.dateX ? options.dateX.valueOf() * 1000 : false, with Undef for
\* false; NaN is written 0, which like NaN is falsy and is not false
DateMicros(m) ==
    IF Given(m) THEN (IF m[1] = 1 THEN <<m[2] * 1000>> ELSE <<0>>) ELSE Undef

\* the test of the dates written as if (dateBefore || dateFrom)
MutDateFilterGiven(o) == Truthy(DateMicros(o.dateBefore)) \/ Truthy(DateMicros(o.dateFrom))
\* if (dateBefore !== false || dateFrom !== false)
DateFilterGiven(o) == Given(DateMicros(o.dateBefore)) \/ Given(DateMicros(o.dateFrom))

\* the checks of query that throw before any statement is built, in the
\* order of the code; biggerThan and smallerThan are numbers whenever given
QueryRejects(o) ==
    \/ o.zoomType # "integer"
    \/ IdxTypeBad(o)
    \/ DateTypeBad(o.dateBefore)
    \/ DateTypeBad(o.dateFrom)
    \/ Given(o.smallerThan) /\ o.smallerThan[1] <= 0
    \/ StartOf(o) > EndOf(o)
    \/ EndOf(o) > Pow4(o.zoom)
    \/ DateInverted(o)
    \/ DateFilterGiven(o)

\* the idx clauses: idx >= start when start > 0, idx < end when end < maxEnd
IdxConds(o, i) ==
    /\ (StartOf(o) > 0) => i >= StartOf(o)
    /\ (EndOf(o) < Pow4(o.zoom)) => i < EndOf(o)

\* a biggerThan clause written with >
MutSizeConds(o, len) ==
    /\ Truthy(o.smallerThan) => len < o.smallerThan[1]
    /\ Truthy(o.biggerThan) => len > o.biggerThan[1]
\* the size clauses: length(tile) < smallerThan, length(tile) >= biggerThan
SizeConds(o, len) ==
    /\ Truthy(o.smallerThan) => len < o.smallerThan[1]
    /\ Truthy(o.biggerThan) => len >= o.biggerThan[1]

\* a bigint column arrives as decimal text
RECURSIVE BigintText(_)
BigintText(n) == IF n < 10 THEN <<n>> ELSE Append(BigintText(n \div 10), n % 10)

RECURSIVE parseInt(_)
parseInt(digits) ==
    IF digits = <<>> THEN 0
    ELSE 10 * parseInt(SubSeq(digits, 1, Len(digits) - 1)) + digits[Len(digits)]

\* the rows of SELECT idx[, tile] FROM $1~ WHERE zoom = $2 AND ..., as a set:
\* the statement has no ORDER BY
Selected(t, o) ==
    {[idx |-> BigintText(r[1][2]), tile |-> IF o.getTiles THEN t[r[1]][r[2]] ELSE T0] :
        r \in {rr \in UNION {{<<k, n>> : n \in 1..Len(t[k])} : k \in Keys} :
                  /\ rr[1][1] = o.zoom
                  /\ IdxConds(o, rr[1][2])
                  /\ SizeConds(o, Len(t[rr[1]][rr[2]]))}}

\* the orders in which the server may hand the rows of set S over
Orders(S) ==
    {f \in [1..Cardinality(S) -> S] : \A i, j \in 1..Cardinality(S) : i # j => f[i] # f[j]}

\* the function promistreamus applies to each row
Transform(o, value) ==
    [zoom |-> o.zoom, idx |-> parseInt(value.idx),
     tile |-> IF o.getTiles THEN value.tile ELSE T0,
     headers |-> IF o.getTiles THEN headers ELSE NoHeaders]

\* query(options): the checks, then self.client.stream is asked to open the
\* cursor and the iterator is returned before it is open
Query(o) ==
    /\ qstate = "idle"
    /\ qopts' = o
    /\ IF QueryRejects(o)
       THEN /\ qstate' = "rejected"
            /\ ev' = Plain("query", "ValidationError")
       ELSE /\ qstate' = "opening"
            /\ ev' = Plain("query", "ok")
    /\ UNCHANGED <<table, storeVars, bootVars, cursor, fetched, delivered, pending>>

\* the cursor is open: stream => iterator.init(stream)
OpenCursor ==
    /\ qstate = "opening"
    /\ qstate' = "open"
    /\ cursor' \in Orders(Selected(table, qopts))
    /\ ev' = NoEvent
    /\ UNCHANGED <<table, storeVars, bootVars, qopts, fetched, delivered, pending>>

\* the connection or the cursor cannot be opened: self.client.stream rejects
\* before it calls back with a stream; the rejection is logged and kept in
\* self.err, and iterator.init is never called
FailOpen ==
    /\ qstate = "opening"
    /\ qstate' = "failed"
    /\ ev' = NoEvent
    /\ UNCHANGED <<table, storeVars, bootVars, qopts, cursor, fetched, delivered, pending>>

\* the open stream emits an error: the iterator keeps it for next()
StreamFault ==
    /\ qstate = "open"
    /\ qstate' = "faulted"
    /\ cursor' = <<>>
    /\ fetched' = <<>>
    /\ ev' = NoEvent
    /\ UNCHANGED <<table, storeVars, bootVars, qopts, delivered, pending>>

\* a stream that reads from the cursor whether or not its buffer is empty
MutFetch(n) ==
    /\ qstate = "open"
    /\ n <= Len(cursor)
    /\ fetched' = fetched \o SubSeq(cursor, 1, n)
    /\ cursor' = SubSeq(cursor, n + 1, Len(cursor))
    /\ ev' = NoEvent
    /\ UNCHANGED <<table, storeVars, bootVars, qopts, delivered, qstate, pending>>
\* the stream reads the next n rows of the cursor, when its buffer is empty
Fetch(n) ==
    /\ qstate = "open"
    /\ fetched = <<>>
    /\ n <= Len(cursor)
    /\ fetched' = SubSeq(cursor, 1, n)
    /\ cursor' = SubSeq(cursor, n + 1, Len(cursor))
    /\ ev' = NoEvent
    /\ UNCHANGED <<table, storeVars, bootVars, qopts, delivered, qstate, pending>>

\* the consumer calls next() on the iterator
CallNext ==
    /\ ~pending
    /\ qstate \in {"opening", "open", "failed", "faulted"}
    /\ pending' = TRUE
    /\ ev' = NoEvent
    /\ UNCHANGED <<table, storeVars, bootVars, qopts, cursor, fetched, delivered, qstate>>

\* the pending next() resolves: the next row, transformed, or the end of the
\* sequence
NextRow ==
    /\ pending
    /\ qstate = "open"
    /\ pending' = FALSE
    /\ IF fetched # <<>>
       THEN /\ delivered' = Append(delivered, Transform(qopts, Head(fetched)))
            /\ fetched' = Tail(fetched)
            /\ ev' = Plain("next", "row")
            /\ UNCHANGED qstate
       ELSE /\ cursor = <<>>
            /\ qstate' = "done"
            /\ ev' = Plain("next", "end")
            /\ UNCHANGED <<fetched, delivered>>
    /\ UNCHANGED <<table, storeVars, bootVars, qopts, cursor>>

\* the pending next() is rejected with the error the stream emitted
NextFault ==
    /\ pending
    /\ qstate = "faulted"
    /\ pending' = FALSE
    /\ qstate' = "errored"
    /\ ev' = Plain("next", "StorageFault")
    /\ UNCHANGED <<table, storeVars, bootVars, qopts, cursor, fetched, delivered>>

\* rows the cursor hands over in one read
MaxFetch == 2

\* a tile of three bytes
T3 == <<4, 5, 6>>

\* the tables a query is run on: any tiles at idx 0..2 of zoom 1, none at
\* idx 3, and the metadata record
QueryTables ==
    {[k \in Keys |-> IF k = InfoKey THEN <<JSONstringify(1)>>
                     ELSE IF k[2] \in DOMAIN rows THEN rows[k[2]] ELSE <<>>] :
        rows \in [0..2 -> {<<>>, <<T1>>, <<T2>>, <<T3>>}]}

MaybeIdxFrom == {Undef, <<0>>, <<1>>, <<2>>}
MaybeIdxBefore == {Undef, <<0>>, <<2>>, <<5>>}
MaybeBigger == {Undef, <<0>>, <<2>>}
MaybeSmaller == {Undef, <<0>>, <<2>>, <<3>>}

QueryOptions ==
    {Options(1, f, b, g, l, t) : f \in MaybeIdxFrom, b \in MaybeIdxBefore,
                                g \in MaybeBigger, l \in MaybeSmaller, t \in BOOLEAN}

InitQuery ==
    /\ table \in QueryTables
    /\ batchMode = 0
    /\ batch = <<>>
    /\ maxBatchSize = 0
    /\ reqs = {}
    /\ nreq = 0
    /\ ev = NoEvent
    /\ sent = <<>>
    /\ nBegin = 0
    /\ nEnd = 0
    /\ qopts = NoOpts
    /\ cursor = <<>>
    /\ fetched = <<>>
    /\ delivered = <<>>
    /\ qstate = "idle"
    /\ pending = FALSE
    /\ uri = ReadyUri
    /\ params = DeletePassword(normalizeUri(ReadyUri))
    /\ boot = "ready"

\* values given as a date filter
MaybeDate == {Undef, NotADate, InvalidDate, DateOf(0), DateOf(5)}

\* queries with a date filter, alone and next to other options, valid or not
DateOptions ==
    {WithDates(Options(1, f, b, Undef, l, FALSE), df, db) :
        f \in {Undef, <<1>>}, b \in {Undef, <<0>>}, l \in {Undef, <<0>>},
        df \in MaybeDate, db \in MaybeDate} \ QueryOptions

NextQuery ==
    \/ \E o \in QueryOptions : Query(o)
    \/ \E o \in DateOptions : Query(o)
    \/ OpenCursor
    \/ \E n \in 1..MaxFetch : Fetch(n)
    \/ CallNext
    \/ NextRow

SpecQuery == InitQuery /\ [][NextQuery]_vars

\* values given as idxFrom and idxBefore: below 0, on and beyond the ends of
\* the index range of zoom 1, and no integer
MalformedIdxFrom == {Undef, <<-1>>, <<0>>, <<1>>, <<4>>, <<5>>, Half(1)}
MalformedIdxBefore == {Undef, <<-1>>, <<0>>, <<1>>, <<4>>, <<5>>, Half(2)}

\* options with and without a usable zoom, well formed or not
ValidateOptions ==
    {WithZoomType(Options(1, f, b, Undef, Undef, FALSE), t) :
        f \in MalformedIdxFrom, b \in MalformedIdxBefore,
        t \in {"integer", "undefined", "fraction"}}

\* the range query called with malformed options
NextValidate ==
    \/ \E o \in ValidateOptions : Query(o)
    \/ OpenCursor
    \/ \E n \in 1..MaxFetch : Fetch(n)
    \/ CallNext
    \/ NextRow

SpecValidate == InitQuery /\ [][NextValidate]_vars

\* point reads of every idx of zoom 1 and of one beyond, in every mode
NextSize ==
    \/ \E i \in 0..4, wantTile \in BOOLEAN, wantSize \in BOOLEAN :
          QueryTile(1, i, wantTile, wantSize)
    \/ \E r \in reqs : DoQueryTile(r)
    \/ \E r \in reqs : FailRead(r)

SpecSize == InitQuery /\ [][NextSize]_vars

\* the queries run in the behaviours with faults: all records of zoom 1
StreamOptions == {Options(1, Undef, Undef, Undef, Undef, t) : t \in BOOLEAN}

\* a range query whose connection or stream may fail
NextStream ==
    \/ \E o \in StreamOptions : Query(o)
    \/ OpenCursor
    \/ FailOpen
    \/ StreamFault
    \/ \E n \in 1..MaxFetch : Fetch(n)
    \/ CallNext
    \/ NextRow
    \/ NextFault

\* the event loop runs what is ready: the attempt to open the cursor ends, the
\* stream reads when its buffer is empty, a pending next() that can be
\* resolved or rejected is; the consumer and the faults are under no obligation
SpecStream ==
    /\ InitQuery
    /\ [][NextStream]_vars
    /\ WF_vars(OpenCursor \/ FailOpen)
    /\ WF_vars(\E n \in 1..MaxFetch : Fetch(n))
    /\ WF_vars(NextRow)
    /\ WF_vars(NextFault)

\* the queries of the behaviours with construction: one accepted, one rejected
BootOptions == {Options(1, Undef, Undef, Undef, Undef, FALSE), Options(1, <<2>>, <<0>>, Undef, Undef, FALSE)}

\* the arguments the store is constructed with
Uris ==
    {Uri(f[1], f[2], n, t, d, b) :
        f \in {<<"string", TRUE>>, <<"object", TRUE>>, <<"object", FALSE>>},
        n \in {ParamNames, ParamNames \ {"password"}},
        t \in BOOLEAN, d \in BOOLEAN, b \in BOOLEAN}

InitBoot ==
    /\ table = EmptyTable
    /\ batchMode = 0
    /\ batch = <<>>
    /\ maxBatchSize = 0
    /\ reqs = {}
    /\ nreq = 0
    /\ ev = NoEvent
    /\ sent = <<>>
    /\ nBegin = 0
    /\ nEnd = 0
    /\ qopts = NoOpts
    /\ cursor = <<>>
    /\ fetched = <<>>
    /\ delivered = <<>>
    /\ qstate = "idle"
    /\ pending = FALSE
    /\ uri \in Uris
    /\ params = {}
    /\ boot = "new"

\* construction, then operations whose failures reach the caller
NextBoot ==
    \/ Construct
    \/ BootOk
    \/ BootFail
    \/ boot = "ready" /\ \E z \in CallZooms : PutTile(z, 0, 0, T1)
    \/ boot = "ready" /\ \E z \in CallZooms : GetTile(z, 0, 0)
    \/ boot = "ready" /\ StopWriting
    \/ boot = "ready" /\ \E o \in BootOptions : Query(o)
    \/ \E r \in reqs : DoUpdate(r)
    \/ \E r \in reqs : DoCheck(r)
    \/ \E r \in reqs : DoInsert(r)
    \/ \E r \in reqs : DoRead(r)
    \/ \E r \in reqs : FailRead(r)

SpecBoot == InitBoot /\ [][NextBoot]_vars

----------------------------------------------------------------------------
(* Round trip and delete (C1, C2) *)

\* the coordinates a caller can pass for key k
CoordsOf(k) ==
    {c \in Zooms \X TileXY : Key(c[1], xyToIndex(c[2][1], c[2][2], c[1])) = k}

\* the last step called back a putTile with success
PutTileOk == ev.op = "putTile" /\ ev.res = "ok"

NoEmptyTile == \A k \in Keys : \A i \in 1..Len(table[k]) : Len(table[k][i]) > 0

----------------------------------------------------------------------------
(* The nesting counter (C3, C4) *)

\* C3: the counter is the number of startWriting calls minus the number of
\* stopWriting calls that were let through, it is never negative, a store with
\* a maxBatchSize writes directly exactly when the two numbers are equal, and a
\* stopWriting that fails with the protocol error leaves the counter at 0
C3_Nesting ==
    /\ batchMode = nBegin - nEnd
    /\ batchMode >= 0
    /\ (maxBatchSize > 0) => (DirectMode <=> nEnd = nBegin)
    /\ (ev = Plain("stopWriting", "BatchProtocolError")) => (batchMode = 0 /\ nEnd = nBegin)

\* two startWriting, two stopWriting, and a third stopWriting has failed
C3_Witness ==
    /\ ev = Plain("stopWriting", "BatchProtocolError")
    /\ nBegin = 2 /\ nEnd = 2 /\ batchMode = 0

\* a stopWriting call that was let through
StopStep == nEnd' = nEnd + 1

\* C4 as stated: a stopWriting that leaves the counter above 0 submits nothing
\* and leaves the pending sequence unchanged
C4_FlushOnlyAtZero_Original ==
    [][(StopStep /\ batchMode' > 0) => (batch' = batch /\ reqs' = reqs /\ sent' = sent)]_vars

\* C4 amended: every stopWriting that is let through flushes, whatever value the
\* counter reaches: the whole pending sequence is detached and handed over as
\* one group (nothing when it is empty), and stopWriting calls back with
\* success only when that group has been run
C4_StopWritingFlushes ==
    [][/\ StopStep =>
            /\ batch' = <<>>
            /\ IF batch = <<>>
               THEN reqs' = reqs /\ sent' = sent /\ ev' = Plain("stopWriting", "ok")
               ELSE /\ reqs' = reqs \cup {BatchReq(batch, "stopWriting")}
                    /\ sent' = Append(sent, batch)
                    /\ ev' = NoEvent
       /\ (~StopStep /\ ev' = Plain("stopWriting", "ok")) =>
            \E r \in reqs :
                /\ r.caller = "stopWriting" /\ r.pc = "batch"
                /\ reqs' = Disturb(reqs \ {r}, r.rid, GroupKeys(r.group))
                /\ table' = ApplyGroup(table, r.group)
      ]_vars

\* a stopWriting took the counter from 2 to 1 and its group is in flight
C4_Witness ==
    /\ nBegin = 2 /\ nEnd = 1 /\ batchMode = 1
    /\ \E r \in reqs : r.caller = "stopWriting" /\ Len(r.group) > 0

----------------------------------------------------------------------------
(* Buffering and flushing (C5, C6) *)

\* a putTile or putInfo call that is buffered
BufferedSubmit == nreq' = nreq + 1 /\ ~DirectMode

\* C5: with maxBatchSize = K and the counter above 0, a submission sets off an
\* automatic flush exactly when K entries are pending before it, so that it is
\* the (K+1)th; that flush is one group, made of the K pending entries followed
\* by the new one, and the caller waits for it; a submission made while fewer
\* than K entries are pending hands nothing over
C5_AutoFlush ==
    [][BufferedSubmit =>
        IF Len(batch) = maxBatchSize
        THEN /\ batch' = <<>>
             /\ Len(sent') = Len(sent) + 1
             /\ SubSeq(sent', 1, Len(sent)) = sent
             /\ LET g == sent'[Len(sent')]
                IN  /\ Len(g) = maxBatchSize + 1
                    /\ SubSeq(g, 1, maxBatchSize) = batch
                    /\ g[Len(g)].id = nreq + 1
                    /\ \E r \in reqs' :
                        /\ r.group = g
                        /\ r.caller \in {"putTile", "putInfo"}
                        /\ reqs' = reqs \cup {r}
                        /\ r \notin reqs
             /\ ev' = NoEvent
        ELSE /\ Len(batch) < maxBatchSize
             /\ sent' = sent
             /\ reqs' = reqs
             /\ Len(batch') = Len(batch) + 1
             /\ SubSeq(batch', 1, Len(batch)) = batch
             /\ batch'[Len(batch')].id = nreq + 1
      ]_vars

\* the only group handed over so far is an automatic flush of K+1 entries, in flight
C5_Witness ==
    /\ maxBatchSize = MaxBatch
    /\ Len(sent) = 1
    /\ Len(sent[1]) = MaxBatch + 1
    /\ \E r \in reqs : r.caller = "putTile" /\ r.group = sent[1]

RECURSIVE Concat(_)
Concat(groups) == IF groups = <<>> THEN <<>> ELSE Head(groups) \o Concat(Tail(groups))

\* the ids of the entries of a sequence
Ids(es) == {es[i].id : i \in 1..Len(es)}

\* every entry that was buffered: those handed over, then those pending
Buffered == Concat(sent) \o batch

\* C6: an entry that was buffered is pending or in exactly one group handed
\* over, never in both and never in two groups; it stays so until it is handed
\* over; a group is never empty and holds its entries in submission order; a
\* group in flight is one that was handed over; and flush calls back with an
\* error only when a group it handed over failed
C6_ExactlyOnce ==
    /\ [](/\ \A i, j \in 1..Len(Buffered) : i # j => Buffered[i].id # Buffered[j].id
          /\ \A n \in 1..Len(sent) :
                /\ Len(sent[n]) > 0
                /\ \A i, j \in 1..Len(sent[n]) : i < j => sent[n][i].id < sent[n][j].id
          /\ \A i, j \in 1..Len(batch) : i < j => batch[i].id < batch[j].id
          /\ \A r \in reqs : r.pc = "batch" => \E n \in 1..Len(sent) : sent[n] = r.group)
    /\ [][/\ Ids(Buffered) \subseteq Ids(Buffered')
          /\ BufferedSubmit => (nreq + 1) \in Ids(Buffered')
          /\ (batch = <<>>) => (sent' = sent \/ BufferedSubmit)
          /\ (ev'.op = "flush" /\ ev'.res # "ok") =>
                \E r \in reqs : r.caller = "flush" /\ r.pc = "batch" /\ r \notin reqs'
         ]_vars

\* a submission arrived while a flush was in flight and was flushed in its turn:
\* two groups are in flight
C6_Witness ==
    /\ Len(sent) = 2
    /\ \E r1, r2 \in reqs :
        /\ r1.group = sent[1] /\ r2.group = sent[2]
        /\ r1.pc = "batch" /\ r2.pc = "batch"
        /\ r1.caller = "flush"

----------------------------------------------------------------------------
(* The upsert's race and the primary key (C7, C8) *)

\* request r is answered by this step
Leaves(r) == \A q \in reqs' : q.rid # r.rid

\* C7: a writer that saw the row absent and attempts the insert is rejected
\* exactly when another writer's row is there by then; the rejected putTile
\* calls back with a storage failure, the table is left as it is, and the
\* statement is not sent again: a direct request enters only with a new call
C7_InsertRace ==
    [][/\ \A r \in reqs : (r.pc = "insert" /\ Leaves(r)) =>
            IF Len(table[r.key]) = 0
            THEN /\ table' = [table EXCEPT ![r.key] = <<r.tile>>]
                 /\ ev' = Event(r.caller, "ok", r.key, r.tile, TRUE, r.clean)
            ELSE /\ table' = table
                 /\ ev' = Event(r.caller, "StorageFault", r.key, r.tile, TRUE, r.clean)
       /\ \A q \in reqs' : (q.pc # "batch" /\ \A r \in reqs : r.rid # q.rid) =>
            (nreq' = nreq + 1 /\ q.rid = nreq')
      ]_vars

\* two writers of one absent address both saw it absent; one inserted its row
\* and the other was rejected
C7_Witness ==
    /\ ev.op = "putTile" /\ ev.res = "StorageFault" /\ ev.direct
    /\ table[ev.key] # <<>>
    /\ table[ev.key] # <<ev.tile>>
    /\ reqs = {}
    /\ nreq = 2

\* C8: the table holds at most one record per (zoom, idx)
C8_UniqueKey == \A k \in Keys : Len(table[k]) <= 1

\* a row is stored under a key and a writer that saw the key absent is about to
\* insert a second one
C8_Witness ==
    \E r \in reqs : r.pc = "insert" /\ Len(table[r.key]) = 1

----------------------------------------------------------------------------
(* Range queries (C9, C10) *)

\* the idx of the records stored at zoom z
StoredIdx(z) == {k[2] : k \in {kk \in Keys : kk[1] = z /\ table[kk] # <<>>}}
\* the idx of the records delivered so far
DeliveredIdx == {delivered[n].idx : n \in 1..Len(delivered)}
\* the query gave both idx bounds, 0 <= a <= b with b >= 1, and no size filter
RangeQuery ==
    /\ Given(qopts.idxFrom) /\ Given(qopts.idxBefore)
    /\ qopts.idxFrom[1] <= qopts.idxBefore[1]
    /\ qopts.idxBefore[1] >= 1
    /\ ~Given(qopts.smallerThan) /\ ~Given(qopts.biggerThan)

\* C9: a query with idx bounds a and b that has reached its end has delivered
\* exactly the stored records of its zoom with idx in [a, b), each once, in
\* ascending idx order, however the cursor batched its reads
C9_AscendingRange ==
    (qstate = "done" /\ RangeQuery) =>
        /\ DeliveredIdx = {i \in StoredIdx(qopts.zoom) :
                              qopts.idxFrom[1] <= i /\ i < qopts.idxBefore[1]}
        /\ Len(delivered) = Cardinality(DeliveredIdx)
        /\ \A m, n \in 1..Len(delivered) : m < n => delivered[m].idx < delivered[n].idx

\* C9, without the order: the records of [a, b), each once
C9_RangeSet ==
    (qstate = "done" /\ RangeQuery) =>
        /\ DeliveredIdx = {i \in StoredIdx(qopts.zoom) :
                              qopts.idxFrom[1] <= i /\ i < qopts.idxBefore[1]}
        /\ Len(delivered) = Cardinality(DeliveredIdx)

\* a range query has ended after delivering two records, the larger idx first,
\* and left a stored record outside the range undelivered
C9_Witness ==
    /\ qstate = "done" /\ RangeQuery
    /\ Len(delivered) = 2
    /\ delivered[1].idx > delivered[2].idx
    /\ StoredIdx(qopts.zoom) # DeliveredIdx

\* the length of the tile stored at idx i of the query's zoom
StoredLen(i) == Len(table[Key(qopts.zoom, i)][1])

\* C10: a query with smallerThan = S delivers only records whose stored tile is
\* shorter than S, with biggerThan = B only records whose tile has at least B
\* bytes, and a query with size filters and no idx bound that has reached its end
\* has delivered exactly the stored records that satisfy every filter given,
\* each once
C10_SizeFilters ==
    (qstate \in {"open", "done"}) =>
        /\ DeliveredIdx \subseteq StoredIdx(qopts.zoom)
        /\ Given(qopts.smallerThan) =>
              \A i \in DeliveredIdx : StoredLen(i) < qopts.smallerThan[1]
        /\ Given(qopts.biggerThan) =>
              \A i \in DeliveredIdx : StoredLen(i) >= qopts.biggerThan[1]
        /\ (qstate = "done" /\ ~Given(qopts.idxFrom) /\ ~Given(qopts.idxBefore)) =>
              /\ DeliveredIdx =
                    {i \in StoredIdx(qopts.zoom) :
                        /\ Given(qopts.smallerThan) => StoredLen(i) < qopts.smallerThan[1]
                        /\ Given(qopts.biggerThan) => StoredLen(i) >= qopts.biggerThan[1]}
              /\ Len(delivered) = Cardinality(DeliveredIdx)

\* a query with both size filters has ended: it delivered a record, left out a
\* record that is too short and left out a record that is too long
C10_Witness ==
    /\ qstate = "done"
    /\ ~Given(qopts.idxFrom) /\ ~Given(qopts.idxBefore)
    /\ Given(qopts.smallerThan) /\ Given(qopts.biggerThan)
    /\ delivered # <<>>
    /\ \E i \in StoredIdx(qopts.zoom) : StoredLen(i) >= qopts.smallerThan[1]
    /\ \E i \in StoredIdx(qopts.zoom) : StoredLen(i) < qopts.biggerThan[1]

----------------------------------------------------------------------------
(* Reads and the zoom window (C11, C12, C13) *)

InWindow(z) == ~(z < minzoom \/ z > maxzoom)

\* a getTile read of r's key is answered in this step
AnsweredRead(r) ==
    /\ r \in reqs /\ r.pc = "read" /\ r.caller = "getTile"
    /\ Cardinality(ReadsOf(reqs', r.key, "getTile")) < Cardinality(ReadsOf(reqs, r.key, "getTile"))

\* C11: a getTile outside the zoom window calls back not-found, never a fault,
\* in the step of the call, and no read of an address outside the window is
\* ever in flight; a getTile inside the window is answered not-found only when
\* the address holds no record, and with the stored tile when there is one,
\* unless the read itself fails
C11_NotFound ==
    [][/\ (ev'.op = "getTile" /\ ~InWindow(ev'.key[1])) =>
            (ev'.res = "NotFound" /\ reqs' = reqs /\ table' = table)
       /\ \A r \in reqs' : (r.pc = "read" /\ r.caller = "getTile") => InWindow(r.key[1])
       /\ \A r \in reqs : AnsweredRead(r) =>
            /\ ev'.op = "getTile" /\ ev'.key = r.key
            /\ ev'.res \in {"NotFound", "ok", "StorageFault"}
            /\ (ev'.res = "NotFound") => table[r.key] = <<>>
            /\ (ev'.res = "ok") => table[r.key] = <<ev'.tile>>
            /\ (table[r.key] = <<>>) => ev'.res # "ok"
      ]_vars

\* a getTile above the window has called back not-found while a tile is stored
\* and a read of an address inside the window is in flight
C11_Witness ==
    /\ ev.op = "getTile" /\ ev.res = "NotFound" /\ ev.key[1] > maxzoom
    /\ \E k \in Keys : table[k] # <<>>
    /\ \E r \in reqs : r.pc = "read" /\ r.caller = "getTile"

\* the zooms of the keys that requests and entries may carry: the window, the
\* metadata record's and that of a request without key
WritableZoom(z) == InWindow(z) \/ z = InfoKey[1] \/ z = NoKey[1]

\* C12: a putTile that fails with the configuration error changes nothing: no
\* request is sent, no entry is appended, counter and table stay as they are;
\* and no request or entry ever carries a zoom outside the window, so every
\* putTile outside the window has failed that way
C12_ConfigurationError ==
    /\ [](/\ \A r \in reqs : WritableZoom(r.key[1])
          /\ \A i \in 1..Len(batch) : WritableZoom(batch[i].key[1])
          /\ \A g \in 1..Len(sent) : \A i \in 1..Len(sent[g]) : WritableZoom(sent[g][i].key[1])
          /\ \A k \in Keys : table[k] # <<>> => WritableZoom(k[1]))
    /\ [][(ev' = Plain("putTile", "ConfigurationError")) =>
            UNCHANGED <<table, batchMode, batch, maxBatchSize, reqs, nreq, sent>>]_vars

\* a putTile outside the window has failed in buffering mode, with an entry
\* pending and the counter above 0
C12_Witness ==
    /\ ev = Plain("putTile", "ConfigurationError")
    /\ batchMode > 0 /\ maxBatchSize > 0
    /\ batch # <<>>

\* the last step called back a putInfo with success
PutInfoOk == ev.op = "putInfo" /\ ev.res = "ok"

\* no metadata record: getInfo answers the descriptor with the configured zooms
InfoDefault == (table[InfoKey] = <<>>) => getInfo(table) = Reply("ok", <<minzoom, maxzoom>>, NoHeaders)

\* putInfo writes the reserved address only
InfoAddressOnly ==
    /\ \A r \in reqs : r.caller = "putInfo" =>
          IF r.pc = "batch" THEN r.group[Len(r.group)].key = InfoKey ELSE r.key = InfoKey
    /\ (ev.op = "putInfo") => ev.key = InfoKey

----------------------------------------------------------------------------
(* The lazy sequence (C14, C15) *)

\* C14: every next() call eventually resolves, with a record, the end of the
\* sequence or an error, also when the cursor could not be opened or the
\* stream failed
C14_NextResolves == pending ~> ~pending

\* C14, the parts about the records and about a fault of the open stream:
\* what next() has delivered stays delivered, a step delivers at most one
\* record, a next() that is rejected or that ends the sequence delivers none,
\* and a fault of the open stream is the outcome of the next() call that is
\* pending or comes next
C14_OpenStreamFaults ==
    /\ [][/\ \/ delivered' = delivered
             \/ /\ Len(delivered') = Len(delivered) + 1
                /\ SubSeq(delivered', 1, Len(delivered)) = delivered
                /\ pending /\ ~pending'
          /\ (ev' \in {Plain("next", "StorageFault"), Plain("next", "end")}) =>
                delivered' = delivered
         ]_vars
    /\ (pending /\ qstate = "faulted") ~> (ev = Plain("next", "StorageFault"))

\* the cursor could not be opened and a next() call is pending
C14_Witness == qstate = "failed" /\ pending

\* rows taken from the server-side cursor and not yet handed out by next()
ReadAhead == Len(fetched)

----------------------------------------------------------------------------
(* Date filters (C17) *)

\* the query would pass every check if its date filters were left out
ValidButForDates == ~QueryRejects(WithDates(qopts, Undef, Undef))

\* C17: a query that was given a dateFrom or a dateBefore, whatever its value
\* and whatever the other options, has failed with a validation error and no
\* cursor was opened for it
C17_DatesRejected ==
    (qstate # "idle" /\ (Given(qopts.dateFrom) \/ Given(qopts.dateBefore))) =>
        /\ qstate = "rejected"
        /\ ev = Plain("query", "ValidationError")
        /\ cursor = <<>> /\ fetched = <<>> /\ delivered = <<>> /\ ~pending

\* a query valid but for its dates, with a dateFrom at the epoch and a later
\* dateBefore, was rejected
C17_Witness ==
    /\ qstate = "rejected"
    /\ qopts.dateFrom = DateOf(0) /\ qopts.dateBefore = DateOf(5)
    /\ ValidButForDates

----------------------------------------------------------------------------
(* Credentials in failures (C16) *)

\* a failure of the store whose uri was given with a password
FailureWithPassword == IsFailure(ev) /\ "password" \in uri.names

\* C16: no failure that reaches a caller shows the configured password, in its
\* message or in its attached context, whatever step it occurs at
C16_NoCredential ==
    IsFailure(ev) => "password" \notin (Message(ev) \cup Context(ev))

\* C16, what the code keeps: the context attached to a failure that occurs
\* after line 62 shows no password, and the message made by this.throwError
\* shows none when the uri was given as an object without text fields
C16_SanitizedAfterDelete ==
    (IsFailure(ev) /\ boot # "failed") =>
        /\ "password" \notin Context(ev)
        /\ (uri.form = "object" /\ ~uri.raw) => "password" \notin Message(ev)

\* a validation failure of the constructor for a uri with a password, and a
\* later failure of a constructed store
C16_Witness ==
    /\ FailureWithPassword
    /\ \/ ev.op = "construct" /\ ev.res = "ConfigurationError"
       \/ boot = "ready" /\ ev.op = "putTile"

----------------------------------------------------------------------------
(* Direct mode (C18) *)

\* a putTile or putInfo call that reaches _storeDataAsync
Submit == nreq' = nreq + 1

\* C18: while the counter is 0 or no maxBatchSize is configured, the pending
\* sequence is empty, and every putTile or putInfo sends its statement to the
\* database at once, as a request of its own: its entry is not appended to the
\* pending sequence and is in no group, then or while it is in flight
C18_DirectBypass ==
    /\ []((batchMode = 0 \/ maxBatchSize = 0) => batch = <<>>)
    /\ []((batchMode = 0 \/ maxBatchSize = 0) =>
            \A r \in reqs : r.q \in {"set", "delete"} => r.rid \notin Ids(Buffered))
    /\ [][(Submit /\ (batchMode = 0 \/ maxBatchSize = 0)) =>
            /\ batch' = <<>>
            /\ sent' = sent
            /\ (nreq + 1) \notin Ids(Buffered')
            /\ \E r \in reqs' :
                /\ r.rid = nreq + 1
                /\ r.q \in {"set", "delete"}
                /\ r.group = <<>>
                /\ r \notin reqs
                /\ reqs' = reqs \cup {r}
         ]_vars

\* no maxBatchSize is configured, the counter is above 0, and a write made
\* then is in flight as a request of its own
C18_Witness ==
    /\ maxBatchSize = 0
    /\ batchMode > 0
    /\ nBegin = 1
    /\ nEnd = 0
    /\ batch = <<>>
    /\ sent = <<>>
    /\ \E r \in reqs : r.q = "set" /\ r.caller = "putTile"

----------------------------------------------------------------------------
(* A failed flush (C19) *)

\* the submission of group r fails in this step
GroupFails(r) == r.pc = "batch" /\ r \notin reqs' /\ ev'.res # "ok"

\* group g is in flight among the requests rs
InFlight(g, rs) == \E r \in rs : r.pc = "batch" /\ r.group = g

\* C19: when the submission of a detached group fails, the failure goes to the
\* caller of the flush that handed it over (flush, stopWriting, or the putTile
\* or putInfo that set off the automatic flush); the group fails as a whole,
\* none of its entries is written; its entries are not put back into the
\* pending sequence and nothing is handed over in its place; and a group that
\* is no longer in flight is never in flight again
C19_FailedFlush ==
    [][/\ \A r \in reqs : GroupFails(r) =>
            /\ ev'.res = "StorageFault"
            /\ ev'.op = r.caller
            /\ r.caller \in {"flush", "stopWriting", "putTile", "putInfo"}
            /\ table' = table
            /\ batch' = batch
            /\ Ids(r.group) \cap Ids(batch') = {}
            /\ sent' = sent
            /\ \A q \in reqs' : q.pc = "batch" => q \in reqs
       /\ \A n \in 1..Len(sent) :
            ~InFlight(sent[n], reqs) => ~InFlight(sent[n], reqs')
      ]_vars

\* the automatic flush of a putTile failed and the putTile was told: nothing
\* of the group is written, nothing is pending, nothing is in flight
C19_Witness ==
    /\ ev.op = "putTile"
    /\ ev.res = "StorageFault"
    /\ Len(sent) = 1
    /\ Len(sent[1]) = MaxBatch + 1
    /\ ~InFlight(sent[1], reqs)
    /\ batch = <<>>
    /\ \A k \in Keys : table[k] = <<>>

----------------------------------------------------------------------------
(* Supplied idx bounds (C20) *)


\* C20: every idx bound that was supplied is applied: with idxBefore = b given
\* no delivered record has idx >= b, so that b = 0 delivers nothing, and with
\* idxFrom = a given no delivered record has idx < a
C20_SuppliedBounds ==
    (qstate \in {"open", "done"}) =>
        /\ Given(qopts.idxBefore) =>
              \A i \in DeliveredIdx : i < qopts.idxBefore[1]
        /\ Given(qopts.idxFrom) =>
              \A i \in DeliveredIdx : i >= qopts.idxFrom[1]

\* C20, what the code keeps: a supplied idxFrom is applied, and a supplied
\* idxBefore is applied when it is not 0
C20_NonZeroBounds ==
    (qstate \in {"open", "done"}) =>
        /\ (Given(qopts.idxBefore) /\ qopts.idxBefore[1] # 0) =>
              \A i \in DeliveredIdx : i < qopts.idxBefore[1]
        /\ Given(qopts.idxFrom) =>
              \A i \in DeliveredIdx : i >= qopts.idxFrom[1]

\* a query with idxBefore = 0 has ended and has delivered records
C20_Witness ==
    /\ qstate = "done"
    /\ qopts.idxBefore = <<0>>
    /\ Len(delivered) > 0

----------------------------------------------------------------------------
(* Validation of the query options (C21) *)

\* the options satisfy 0 <= idxFrom <= idxBefore <= 4^zoom, with an integer
\* zoom and integer bounds; a bound left out is the end of the range
WellFormed(o) ==
    /\ o.zoomType = "integer"
    /\ Given(o.idxFrom) => (isInteger(o.idxFrom) /\ 0 <= o.idxFrom[1] /\ o.idxFrom[1] <= Pow4(o.zoom))
    /\ Given(o.idxBefore) => (isInteger(o.idxBefore) /\ 0 <= o.idxBefore[1] /\ o.idxBefore[1] <= Pow4(o.zoom))
    /\ (Given(o.idxFrom) /\ Given(o.idxBefore)) => o.idxFrom[1] <= o.idxBefore[1]

\* the query was accepted: its statement goes, or went, to the database
Accepted == qstate \notin {"idle", "rejected"}

\* C21: query rejects malformed options before any cursor is opened, and only
\* options with an integer zoom and 0 <= idxFrom <= idxBefore <= 4^zoom reach
\* the database
C21_OnlyWellFormed ==
    /\ Accepted => WellFormed(qopts)
    /\ (qstate = "rejected") =>
          (ev = Plain("query", "ValidationError") /\ cursor = <<>> /\ fetched = <<>>)

\* C21, what the code keeps: a rejected query opens nothing and was malformed;
\* an accepted one has an integer zoom, integer bounds, neither bound above
\* 4^zoom, and idxFrom <= idxBefore unless idxBefore is 0
C21_TypesAndUpperEnd ==
    /\ (qstate = "rejected") =>
          /\ ev = Plain("query", "ValidationError")
          /\ cursor = <<>> /\ fetched = <<>> /\ delivered = <<>>
          /\ ~WellFormed(qopts)
    /\ Accepted =>
          /\ qopts.zoomType = "integer"
          /\ Given(qopts.idxFrom) =>
                (isInteger(qopts.idxFrom) /\ qopts.idxFrom[1] <= Pow4(qopts.zoom))
          /\ Given(qopts.idxBefore) =>
                (isInteger(qopts.idxBefore) /\ qopts.idxBefore[1] <= Pow4(qopts.zoom))
          /\ (Given(qopts.idxFrom) /\ Given(qopts.idxBefore) /\ qopts.idxBefore[1] # 0) =>
                qopts.idxFrom[1] <= qopts.idxBefore[1]

\* a query with idxFrom = -1 was accepted and its cursor is open
C21_Witness ==
    /\ qstate = "open"
    /\ qopts.idxFrom = <<-1>>
    /\ ~WellFormed(qopts)

----------------------------------------------------------------------------
(* The point read of the byte length (C22) *)

\* the point read r is answered by the database in this step
AnsweredPoint(r) ==
    /\ r.pc = "read" /\ r.caller = "queryTileAsync"
    /\ r \notin reqs'
    /\ ev'.res # "StorageFault"

\* r asks for the byte length only
SizeOnly(r) == ~r.tile[1].getTile /\ r.tile[1].getSize

\* C22: a point read that asks for the byte length only is answered with the
\* stored tile's byte length when the record exists and with the no-row result
\* when it does not, and it does not fail
C22_SizeOnly ==
    [][\A r \in reqs : (AnsweredPoint(r) /\ SizeOnly(r)) =>
          /\ ev'.res \in {"row", "false"}
          /\ (ev'.res = "false") <=> (table[r.key] = <<>>)
          /\ (ev'.res = "row") => ev'.tile = <<Undef, <<Len(table[r.key][1])>>>>
      ]_vars

\* C22, what the code keeps: a read that asks for the tile is answered with it,
\* and with its byte length too when that is asked for, or with the no-row
\* result; a read that does not ask for the tile fails on self.queries.getSize
C22_TileReads ==
    [][\A r \in reqs : AnsweredPoint(r) =>
          IF r.tile[1].getTile
          THEN /\ ev'.res \in {"row", "false"}
               /\ (ev'.res = "false") <=> (table[r.key] = <<>>)
               /\ (ev'.res = "row") =>
                    ev'.tile = << <<table[r.key][1]>>,
                                  IF r.tile[1].getSize
                                  THEN <<Len(table[r.key][1])>> ELSE Undef >>
          ELSE ev'.res = "InvalidQuery"
      ]_vars

\* a read of the byte length of a stored record has failed
C22_Witness ==
    /\ ev.op = "queryTileAsync"
    /\ ev.res = "InvalidQuery"
    /\ table[ev.key] # <<>>

----------------------------------------------------------------------------
(* No entry is stranded, and the pending sequence is bounded (C23, C24) *)

\* C23: between operations, whenever the nesting counter is 0 the pending
\* sequence is empty, and every entry that was ever buffered has been handed
\* over in a group, whether the groups succeeded or failed
C23_NoStranded ==
    (batchMode = 0) => (batch = <<>> /\ Ids(Buffered) = Ids(Concat(sent)))

\* entries were buffered, the counter is back at 0 after a stopWriting whose
\* flush failed, and nothing is pending
C23_Witness ==
    /\ batchMode = 0
    /\ nEnd > 0
    /\ ev = Plain("stopWriting", "StorageFault")
    /\ Len(sent) > 0
    /\ batch = <<>>

\* C24: with maxBatchSize = K configured, between operations the pending
\* sequence holds at most K entries, whatever was submitted, flushed, begun or
\* ended before, and whether the flushes succeeded or failed
C24_PendingBounded ==
    (maxBatchSize > 0) => Len(batch) <= maxBatchSize

\* K entries are pending after an earlier group was handed over and answered
C24_Witness ==
    /\ maxBatchSize = MaxBatch
    /\ Len(batch) = MaxBatch
    /\ Len(sent) > 0
    /\ ~InFlight(sent[1], reqs)

====
